---------------------------- MODULE Spec2Model ----------------------------
(***************************************************************************)
(* A model of src/src/diff.rs: the recursive structural comparison of two  *)
(* serde_json values under a Config, producing a list of DifferenceRef     *)
(* records.                                                                *)
(*                                                                         *)
(* diff is a function of (lhs, rhs, config) except for one thing: in       *)
(* CompareMode::Strict the keys and indices of both sides are collected in *)
(* a std HashSet and iterated in the set's order, which the standard       *)
(* library seeds at random. Every operator that can reach such an          *)
(* iteration therefore yields the SET of record lists the code can return. *)
(*                                                                         *)
(* Encoding of numbers: a Number keeps serde_json's representation tag     *)
(* (PosInt, NegInt, Float). A Float's payload n is its value in            *)
(* hundredths (1.15 is n = 115); an integer's payload is the integer.      *)
(* as_f64 converts an integer to the float grid by multiplying by 100.     *)
(***************************************************************************)
EXTENDS Integers, Sequences, FiniteSets, TLC

VARIABLES lhs, rhs, config, acc, prev, examined, out, pc

vars == <<lhs, rhs, config, acc, prev, examined, out, pc>>

(***************************************************************************)
(* Option<T>                                                               *)
(***************************************************************************)
None == <<>>

Some(x) == <<x>>

(***************************************************************************)
(* serde_json::Value                                                       *)
(***************************************************************************)
Null == [k |-> "Null"]

Bool(b) == [k |-> "Bool", b |-> b]

PosInt(n) == [k |-> "Number", rep |-> "PosInt", n |-> n]

NegInt(n) == [k |-> "Number", rep |-> "NegInt", n |-> n]

Float(h) == [k |-> "Number", rep |-> "Float", n |-> h]

String(s) == [k |-> "String", s |-> s]

Array(items) == [k |-> "Array", items |-> items]

Object(map) == [k |-> "Object", map |-> map]

\* The field names of the model, in the order serde_json's Map (a BTreeMap)
\* iterates them.
KeyOrder == <<"a", "b">>

FieldNames == {KeyOrder[i] : i \in 1..Len(KeyOrder)}

is_f64(v) == v.k = "Number" /\ v.rep = "Float"

as_f64(v) ==
    IF v.k = "Number"
    THEN Some(IF v.rep = "Float" THEN v.n ELSE v.n * 100)
    ELSE None

as_array(v) == IF v.k = "Array" THEN Some(v.items) ELSE None

as_object(v) == IF v.k = "Object" THEN Some(v.map) ELSE None

\* Vec::get / Map::get with a 0-based index or a field name.
get_idx(items, idx) == IF idx < Len(items) THEN Some(items[idx + 1]) ELSE None

get_key(map, key) == IF key \in DOMAIN map THEN Some(map[key]) ELSE None

\* Map::keys / Map::iter: the fields of a map in key order.
keys(map) == SelectSeq(KeyOrder, LAMBDA f : f \in DOMAIN map)

(***************************************************************************)
(* Config and its enumerations                                             *)
(***************************************************************************)
Exact == [k |-> "Exact"]

Epsilon(e) == [k |-> "Epsilon", epsilon |-> e]

(***************************************************************************)
(* PathRef and KeyRef                                                      *)
(***************************************************************************)
Root == [k |-> "Root"]

Keys(list) == [k |-> "Keys", keys |-> list]

Idx(i) == [k |-> "Idx", i |-> i]

Field(f) == [k |-> "Field", f |-> f]

\* append forgetting the keys already on the path: what C12 rules out.
append_last_only(path, next) == Keys(<<next>>)

append(path, next) ==
    IF path.k = "Root"
    THEN Keys(<<next>>)
    ELSE Keys(Append(path.keys, next))

(***************************************************************************)
(* DifferenceRef                                                           *)
(***************************************************************************)
DifferenceRef(l, r, path, cfg) ==
    [path |-> path, lhs |-> l, rhs |-> r, config |-> cfg]

(***************************************************************************)
(* Helpers on sets of outcomes                                             *)
(***************************************************************************)
Abs(x) == IF x < 0 THEN -x ELSE x

Concat(S, T) == {s \o t : s \in S, t \in T}

RECURSIVE Perms(_)
\* Every order in which a HashSet with the elements S can be iterated.
Perms(S) ==
    IF S = {}
    THEN {<<>>}
    ELSE UNION {{<<x>> \o p : p \in Perms(S \ {x})} : x \in S}

(***************************************************************************)
(* Numbers                                                                 *)
(***************************************************************************)
\* float_cmp's approx_eq with F64Margin { epsilon, ulps: 4 }: equal, or within
\* epsilon in absolute value, or at most 4 units in the last place apart.
\* Two different points of the hundredths grid are at least 10^6 ulps apart
\* for every magnitude the model uses.
approx_eq(l, r, epsilon) ==
    \/ l = r
    \/ Abs(l - r) <= epsilon
    \/ Abs(l - r) * 1000000 <= 4

eq_floats(cfg, l, r) ==
    IF cfg.float_compare_mode.k = "Epsilon"
    THEN approx_eq(l, r, cfg.float_compare_mode.epsilon)
    ELSE l = r

\* eq_values applying the float rule as soon as one side is a float
\* (is_f64 joined by || instead of &&): what C8 rules out.
eq_values_any_float(cfg, l, r) ==
    IF (is_f64(l) \/ is_f64(r)) /\ as_f64(l) # None /\ as_f64(r) # None
    THEN eq_floats(cfg, as_f64(l)[1], as_f64(r)[1])
    ELSE l = r

eq_values(cfg, l, r) ==
    IF is_f64(l) /\ is_f64(r)
    THEN eq_floats(cfg, as_f64(l)[1], as_f64(r)[1])
    ELSE l = r

on_number(l, r, cfg, path) ==
    LET is_equal ==
            IF cfg.numeric_mode = "Strict"
            THEN eq_values(cfg, l, r)
            ELSE IF as_f64(l) # None /\ as_f64(r) # None
                 THEN eq_floats(cfg, as_f64(l)[1], as_f64(r)[1])
                 ELSE as_f64(l) = as_f64(r)
    IN  IF ~is_equal
        THEN <<DifferenceRef(Some(l), Some(r), path, cfg)>>
        ELSE <<>>

\* direct_compare with its test inverted (self.rhs == lhs): what C1 rules out.
direct_compare_inverted(l, r, cfg, path) ==
    IF r = l
    THEN <<DifferenceRef(Some(l), Some(r), path, cfg)>>
    ELSE <<>>

\* on_null, on_bool, on_string
direct_compare(l, r, cfg, path) ==
    IF r # l
    THEN <<DifferenceRef(Some(l), Some(r), path, cfg)>>
    ELSE <<>>

(***************************************************************************)
(* The fold over lhs. Every operator below yields the set of record lists  *)
(* the call can push onto acc; on_array_contains pushes the same list in   *)
(* every run and also reports how many rhs items its loop examined.        *)
(***************************************************************************)
RECURSIVE diff_with(_, _, _, _)
RECURSIVE contains_loop(_, _, _, _, _)
RECURSIVE inclusive_array_loop(_, _, _, _, _)
RECURSIVE inclusive_object_loop(_, _, _, _, _)
RECURSIVE strict_array_loop(_, _, _, _, _)
RECURSIVE strict_object_loop(_, _, _, _, _)

\* diff(a, b, config).is_empty()
is_empty_diff(a, b, cfg) == <<>> \in diff_with(a, b, cfg, Root)

\* The number of items of the rhs array that rhs_item matches (lines 120-123).
rhs_item_count(rhs_items, rhs_item, cfg) ==
    Cardinality({j \in 1..Len(rhs_items) :
                    is_empty_diff(rhs_item, rhs_items[j], cfg)})

\* The number of items of the lhs array that match rhs_item (lines 126-129).
lhs_matching_items_count(lhs_items, rhs_item, cfg) ==
    Cardinality({j \in 1..Len(lhs_items) :
                    is_empty_diff(lhs_items[j], rhs_item, cfg)})

\* The loop of on_array_contains without its break: what C10 rules out.
contains_loop_no_break(l, r, cfg, path, i) ==
    IF i > Len(r.items)
    THEN [acc |-> <<>>, examined |-> Len(r.items)]
    ELSE LET rest == contains_loop(l, r, cfg, path, i + 1)
         IN  IF lhs_matching_items_count(l.items, r.items[i], cfg)
                  < rhs_item_count(r.items, r.items[i], cfg)
             THEN [acc |-> <<DifferenceRef(Some(l), Some(r), path, cfg)>>
                              \o rest.acc,
                   examined |-> rest.examined]
             ELSE rest

\* The loop of on_array_contains from the i-th rhs item (1-based) on.
contains_loop(l, r, cfg, path, i) ==
    IF i > Len(r.items)
    THEN [acc |-> <<>>, examined |-> Len(r.items)]
    ELSE IF lhs_matching_items_count(l.items, r.items[i], cfg)
              < rhs_item_count(r.items, r.items[i], cfg)
         THEN [acc |-> <<DifferenceRef(Some(l), Some(r), path, cfg)>>,
               examined |-> i]
         ELSE contains_loop(l, r, cfg, path, i + 1)

on_array_contains(l, r, cfg, path) ==
    IF as_array(r) # None
    THEN IF cfg.compare_mode = "Strict" /\ Len(l.items) # Len(r.items)
         THEN [acc |-> <<DifferenceRef(Some(l), Some(r), path, cfg)>>,
               examined |-> 0]
         ELSE contains_loop(l, r, cfg, path, 1)
    ELSE [acc |-> <<DifferenceRef(Some(l), Some(r), path, cfg)>>,
          examined |-> 0]

\* The Inclusive loop over arrays running over the indices of both sides
\* and reporting the items only lhs has: what C2 rules out.
inclusive_array_loop_all(l, r, cfg, path, idx) ==
    IF idx >= Len(r.items) /\ idx >= Len(l.items)
    THEN {<<>>}
    ELSE LET p == append(path, Idx(idx))
             lv == get_idx(l.items, idx)
             rv == get_idx(r.items, idx)
             step == IF lv # None /\ rv # None
                     THEN diff_with(lv[1], rv[1], cfg, p)
                     ELSE IF lv = None
                          THEN {<<DifferenceRef(None, Some(r), p, cfg)>>}
                          ELSE {<<DifferenceRef(Some(lv[1]), Some(r), p, cfg)>>}
         IN  Concat(step, inclusive_array_loop(l, r, cfg, path, idx + 1))

\* CompareMode::Inclusive on arrays: rhs.iter().enumerate() from index idx on.
inclusive_array_loop(l, r, cfg, path, idx) ==
    IF idx >= Len(r.items)
    THEN {<<>>}
    ELSE LET p == append(path, Idx(idx))
             step == IF get_idx(l.items, idx) # None
                     THEN diff_with(l.items[idx + 1], r.items[idx + 1], cfg, p)
                     ELSE {<<DifferenceRef(None, Some(r), p, cfg)>>}
         IN  Concat(step, inclusive_array_loop(l, r, cfg, path, idx + 1))

\* CompareMode::Strict on arrays: the indices in the order all_keys yields them.
strict_array_loop(l, r, cfg, path, order) ==
    IF order = <<>>
    THEN {<<>>}
    ELSE LET key == Head(order)
             p == append(path, Idx(key))
             lv == get_idx(l.items, key)
             rv == get_idx(r.items, key)
             step == IF lv # None /\ rv # None
                     THEN diff_with(lv[1], rv[1], cfg, p)
                     ELSE IF lv = None
                          THEN {<<DifferenceRef(None, Some(rv[1]), p, cfg)>>}
                          ELSE {<<DifferenceRef(Some(lv[1]), None, p, cfg)>>}
         IN  Concat(step, strict_array_loop(l, r, cfg, path, Tail(order)))

\* The indexes of a Vec: 0 .. len - 1.
indexes(items) == 0 .. (Len(items) - 1)

\* on_array without the else branch for an rhs that is not an array: what C9
\* rules out.
on_array_no_else(l, r, cfg, path) ==
    IF cfg.array_sorting_mode = "Ignore"
    THEN {on_array_contains(l, r, cfg, path).acc}
    ELSE IF as_array(r) # None
         THEN IF cfg.compare_mode = "Inclusive"
              THEN inclusive_array_loop(l, r, cfg, path, 0)
              ELSE LET all_keys == indexes(r.items) \cup indexes(l.items)
                   IN  UNION {strict_array_loop(l, r, cfg, path, order) :
                                 order \in Perms(all_keys)}
         ELSE {<<>>}

on_array(l, r, cfg, path) ==
    IF cfg.array_sorting_mode = "Ignore"
    THEN {on_array_contains(l, r, cfg, path).acc}
    ELSE IF as_array(r) # None
         THEN IF cfg.compare_mode = "Inclusive"
              THEN inclusive_array_loop(l, r, cfg, path, 0)
              ELSE LET all_keys == indexes(r.items) \cup indexes(l.items)
                   IN  UNION {strict_array_loop(l, r, cfg, path, order) :
                                 order \in Perms(all_keys)}
         ELSE {<<DifferenceRef(Some(l), Some(r), path, cfg)>>}

\* CompareMode::Inclusive on objects: rhs.iter() over the fields ks.
inclusive_object_loop(l, r, cfg, path, ks) ==
    IF ks = <<>>
    THEN {<<>>}
    ELSE LET key == Head(ks)
             p == append(path, Field(key))
             step == IF get_key(l.map, key) # None
                     THEN diff_with(l.map[key], r.map[key], cfg, p)
                     ELSE {<<DifferenceRef(None, Some(r), p, cfg)>>}
         IN  Concat(step, inclusive_object_loop(l, r, cfg, path, Tail(ks)))

\* The Strict loop over objects pushing nothing for a field only lhs has:
\* what C5 rules out.
strict_object_loop_drop(l, r, cfg, path, order) ==
    IF order = <<>>
    THEN {<<>>}
    ELSE LET key == Head(order)
             p == append(path, Field(key))
             lv == get_key(l.map, key)
             rv == get_key(r.map, key)
             step == IF lv # None /\ rv # None
                     THEN diff_with(lv[1], rv[1], cfg, p)
                     ELSE IF lv = None
                          THEN {<<DifferenceRef(None, Some(rv[1]), p, cfg)>>}
                          ELSE {<<>>}
         IN  Concat(step, strict_object_loop(l, r, cfg, path, Tail(order)))

\* CompareMode::Strict on objects: the fields in the order all_keys yields them.
strict_object_loop(l, r, cfg, path, order) ==
    IF order = <<>>
    THEN {<<>>}
    ELSE LET key == Head(order)
             p == append(path, Field(key))
             lv == get_key(l.map, key)
             rv == get_key(r.map, key)
             step == IF lv # None /\ rv # None
                     THEN diff_with(lv[1], rv[1], cfg, p)
                     ELSE IF lv = None
                          THEN {<<DifferenceRef(None, Some(rv[1]), p, cfg)>>}
                          ELSE {<<DifferenceRef(Some(lv[1]), None, p, cfg)>>}
         IN  Concat(step, strict_object_loop(l, r, cfg, path, Tail(order)))

\* on_object taking the Strict arm in every mode: what C3 rules out.
on_object_always_strict(l, r, cfg, path) ==
    IF as_object(r) # None
    THEN LET all_keys == DOMAIN r.map \cup DOMAIN l.map
         IN  UNION {strict_object_loop(l, r, cfg, path, order) :
                       order \in Perms(all_keys)}
    ELSE {<<DifferenceRef(Some(l), Some(r), path, cfg)>>}

on_object(l, r, cfg, path) ==
    IF as_object(r) # None
    THEN IF cfg.compare_mode = "Inclusive"
         THEN inclusive_object_loop(l, r, cfg, path, keys(r.map))
         ELSE LET all_keys == DOMAIN r.map \cup DOMAIN l.map
              IN  UNION {strict_object_loop(l, r, cfg, path, order) :
                            order \in Perms(all_keys)}
    ELSE {<<DifferenceRef(Some(l), Some(r), path, cfg)>>}

fold_json(json, r, cfg, path) ==
    CASE json.k = "Null" -> {direct_compare(json, r, cfg, path)}
      [] json.k = "Bool" -> {direct_compare(json, r, cfg, path)}
      [] json.k = "Number" -> {on_number(json, r, cfg, path)}
      [] json.k = "String" -> {direct_compare(json, r, cfg, path)}
      [] json.k = "Array" -> on_array(json, r, cfg, path)
      [] json.k = "Object" -> on_object(json, r, cfg, path)

diff_with(l, r, cfg, path) == fold_json(l, r, cfg, path)

diff(l, r, cfg) == diff_with(l, r, cfg, Root)

(***************************************************************************)
(* impl fmt::Display for PathRef, KeyRef and DifferenceRef. A rendered     *)
(* text is the sequence of its pieces; a value is rendered by              *)
(* serde_json's pretty printer, which the model leaves as the value. The   *)
(* unreachable!() arms panic.                                              *)
(***************************************************************************)
RECURSIVE fmt_keys(_)
fmt_key(key) ==
    IF key.k = "Idx" THEN <<"[", key.i, "]">> ELSE <<".", key.f>>

fmt_keys(list) ==
    IF list = <<>> THEN <<>> ELSE fmt_key(Head(list)) \o fmt_keys(Tail(list))

fmt_path(path) ==
    IF path.k = "Root" THEN <<"(root)">> ELSE fmt_keys(path.keys)

Panic(msg) == [k |-> "Panic", msg |-> msg]

Written(text) == [k |-> "Ok", text |-> text]

fmt(d) ==
    LET mode == d.config.compare_mode
        p == fmt_path(d.path)
    IN  CASE mode = "Inclusive" /\ d.lhs # None /\ d.rhs # None ->
               Written(<<"json atoms at path">> \o p
                       \o <<"are not equal:", "expected:", d.rhs[1],
                            "actual:", d.lhs[1]>>)
          [] mode = "Inclusive" /\ d.lhs = None /\ d.rhs # None ->
               Written(<<"json atom at path">> \o p
                       \o <<"is missing from actual">>)
          [] mode = "Inclusive" /\ d.lhs # None /\ d.rhs = None ->
               Panic("stuff missing actual wont produce an error")
          [] mode = "Inclusive" /\ d.lhs = None /\ d.rhs = None ->
               Panic("can't both be missing")
          [] mode = "Strict" /\ d.lhs # None /\ d.rhs # None ->
               Written(<<"json atoms at path">> \o p
                       \o <<"are not equal:", "lhs:", d.lhs[1],
                            "rhs:", d.rhs[1]>>)
          [] mode = "Strict" /\ d.lhs = None /\ d.rhs # None ->
               Written(<<"json atom at path">> \o p
                       \o <<"is missing from lhs">>)
          [] mode = "Strict" /\ d.lhs # None /\ d.rhs = None ->
               Written(<<"json atom at path">> \o p
                       \o <<"is missing from rhs">>)
          [] mode = "Strict" /\ d.lhs = None /\ d.rhs = None ->
               Panic("can't both be missing")

(***************************************************************************)
(* The inputs of the model                                                 *)
(***************************************************************************)
\* The longest array of numbers.
MaxLen == 3

Config(m, s, n, f) ==
    [compare_mode |-> m, array_sorting_mode |-> s,
     numeric_mode |-> n, float_compare_mode |-> f]

CompareModes == {"Inclusive", "Strict"}

ArraySortingModes == {"Exact", "Ignore"}

NumericModes == {"Strict", "AssumeFloat"}

\* Epsilon(0.2) and Epsilon(2.0), the margins of test_diffing_leaf_json.
FloatCompareModes == {Exact, Epsilon(20), Epsilon(200)}

\* Config::new(mode) with any array sorting mode: strict, exact numbers.
StructuralConfigs ==
    {Config(m, s, "Strict", Exact) : m \in CompareModes, s \in ArraySortingModes}

AllConfigs ==
    {Config(m, s, n, f) : m \in CompareModes, s \in ArraySortingModes,
                          n \in NumericModes, f \in FloatCompareModes}

EmptyMap == [f \in {} |-> Null]

\* The objects whose fields (any subset of FieldNames) hold values of V.
ObjectsOver(V) ==
    UNION {{Object(m) : m \in [D -> V]} : D \in SUBSET FieldNames}

\* The arrays of at most n items of V.
ArraysOver(V, n) ==
    UNION {{Array(s) : s \in [1..len -> V]} : len \in 0..n}

Scalars ==
    {Null, Bool(TRUE), PosInt(1), PosInt(2), Float(100), String("x")}

Ints == {PosInt(1), PosInt(2)}

\* -1, 1, 2, 1.0, 1.15 and 1.25. No two of them are exactly 0.2 apart, and
\* the only two that are 2.0 apart are -1 and 1, whose difference f64
\* computes exactly.
Numbers ==
    {NegInt(-1), PosInt(1), PosInt(2), Float(100), Float(115), Float(125)}

\* The items of the nested containers.
Kids ==
    {PosInt(1), Object(EmptyMap), Object([f \in {"a"} |-> PosInt(1)]),
     Array(<<PosInt(1), PosInt(2)>>), Array(<<PosInt(2), PosInt(1)>>)}

NestedArrays ==
    {Array(<<>>)} \cup {Array(<<x>>) : x \in Kids}
        \cup {Array(<<x, y>>) : x \in Kids, y \in Kids}

NestedObjects ==
    {Object([f \in {"a"} |-> x]) : x \in Kids}
        \cup {Object([f \in {"a", "b"} |-> IF f = "a" THEN x ELSE y]) :
                 x \in Kids, y \in {PosInt(1), Object(EmptyMap)}}

\* Values compared under the default numeric settings.
StructuralValues ==
    Scalars \cup ArraysOver(Ints, MaxLen) \cup ObjectsOver(Ints)
        \cup NestedArrays \cup NestedObjects

\* [1.0, 1.25] and [1.15, 1.25]. Within a margin of 0.2, 1.15 matches both
\* 1.0 and 1.25, which do not match each other.
FloatPairs ==
    {Array(<<Float(100), Float(125)>>), Array(<<Float(115), Float(125)>>)}

\* The arrays of two arrays of floats.
NestedFloatArrays == {Array(<<x, y>>) : x \in FloatPairs, y \in FloatPairs}

\* Values compared under every numeric setting.
NumericValues ==
    Numbers \cup {Null, Bool(TRUE), String("x")}
        \cup ArraysOver({PosInt(1), Float(100), Float(115), Float(125)}, 2)
        \cup NestedFloatArrays
        \cup {Object([f \in {"a"} |-> x]) : x \in Numbers}

(***************************************************************************)
(* Extras on the left (the inputs of ExtendLeft)                           *)
(***************************************************************************)
ExtraValues == {PosInt(2), Object([f \in {"b"} |-> Null])}

WithField(map, key, v) ==
    [f \in DOMAIN map \cup {key} |-> IF f = key THEN v ELSE map[f]]

RECURSIVE Extensions(_, _)
\* Every value got from l by adding, in one object of l, a field the object
\* of r at the same place does not have, or by appending an item to one
\* array of l that is at least as long as the array of r at the same place.
\* r is None where r has no value at that place.
Extensions(l, r) ==
    IF l.k = "Object"
    THEN LET rmap == IF r # None /\ r[1].k = "Object" THEN r[1].map ELSE EmptyMap
         IN  {Object(WithField(l.map, key, x)) :
                  key \in FieldNames \ (DOMAIN l.map \cup DOMAIN rmap),
                  x \in ExtraValues}
             \cup UNION {{Object([l.map EXCEPT ![key] = e]) :
                              e \in Extensions(l.map[key], get_key(rmap, key))} :
                            key \in DOMAIN l.map}
    ELSE IF l.k = "Array"
    THEN LET ritems == IF r # None /\ r[1].k = "Array" THEN r[1].items ELSE <<>>
         IN  (IF Len(l.items) >= Len(ritems)
              THEN {Array(Append(l.items, x)) : x \in ExtraValues}
              ELSE {})
             \cup UNION {{Array([l.items EXCEPT ![i] = e]) :
                              e \in Extensions(l.items[i], get_idx(ritems, i - 1))} :
                            i \in 1..Len(l.items)}
    ELSE {}

(***************************************************************************)
(* The state machine: one call of diff on the inputs, then either a second *)
(* call on the same inputs, a call with the sides swapped, a call with an  *)
(* extended left side, or the rendering of the records.                    *)
(***************************************************************************)
Fresh ==
    /\ acc = <<>>
    /\ prev = <<>>
    /\ examined = 0
    /\ out = <<>>
    /\ pc = "start"

Init ==
    /\ \/ /\ lhs \in StructuralValues
          /\ rhs \in StructuralValues
          /\ config \in StructuralConfigs
       \/ /\ lhs \in NumericValues
          /\ rhs \in NumericValues
          /\ config \in AllConfigs
    /\ Fresh

\* The rhs items the top-level on_array_contains examined (0 when diff does
\* not call it).
Examined(l, r, cfg) ==
    IF l.k = "Array" /\ cfg.array_sorting_mode = "Ignore"
    THEN on_array_contains(l, r, cfg, Root).examined
    ELSE 0

\* diff(&lhs, &rhs, &config)
Diff ==
    /\ pc = "start"
    /\ acc' \in diff(lhs, rhs, config)
    /\ examined' = Examined(lhs, rhs, config)
    /\ pc' = "done"
    /\ UNCHANGED <<lhs, rhs, config, prev, out>>

\* A second run of diff on the same inputs.
DiffAgain ==
    /\ pc = "done"
    /\ prev' = acc
    /\ acc' \in diff(lhs, rhs, config)
    /\ examined' = Examined(lhs, rhs, config)
    /\ pc' = "again"
    /\ UNCHANGED <<lhs, rhs, config, out>>

\* diff with the two sides swapped, in Strict mode.
DiffSwapped ==
    /\ pc = "done"
    /\ config.compare_mode = "Strict"
    /\ prev' = acc
    /\ lhs' = rhs
    /\ rhs' = lhs
    /\ acc' \in diff(rhs, lhs, config)
    /\ examined' = Examined(rhs, lhs, config)
    /\ pc' = "swapped"
    /\ UNCHANGED <<config, out>>

\* diff with extras added on the left, in Inclusive mode with exact arrays.
ExtendLeft ==
    /\ pc = "done"
    /\ config.compare_mode = "Inclusive"
    /\ config.array_sorting_mode = "Exact"
    /\ \E l2 \in Extensions(lhs, Some(rhs)) :
          /\ lhs' = l2
          /\ acc' \in diff(l2, rhs, config)
          /\ examined' = Examined(l2, rhs, config)
    /\ prev' = acc
    /\ pc' = "extended"
    /\ UNCHANGED <<rhs, config, out>>

\* Every record of acc rendered with Display.
Render ==
    /\ pc = "done"
    /\ acc # <<>>
    /\ out' = [i \in 1..Len(acc) |-> fmt(acc[i])]
    /\ pc' = "rendered"
    /\ UNCHANGED <<lhs, rhs, config, acc, prev, examined>>

Next ==
    \/ Diff
    \/ DiffAgain
    \/ DiffSwapped
    \/ ExtendLeft
    \/ Render

Spec == Init /\ [][Next]_vars

(***************************************************************************)
(* Vocabulary of the properties                                            *)
(***************************************************************************)
DefaultNumbers(cfg) ==
    cfg.numeric_mode = "Strict" /\ cfg.float_compare_mode = Exact

\* Config::new(mode): exact arrays, strict and exact numbers.
IsConfigNew(cfg) == cfg.array_sorting_mode = "Exact" /\ DefaultNumbers(cfg)

PathsOf(records) == [i \in 1..Len(records) |-> records[i].path]

RecordsOf(records) == {records[i] : i \in 1..Len(records)}

\* The key sequence of a path: empty for Root.
KeysOf(path) == IF path.k = "Root" THEN <<>> ELSE path.keys

MissingFromLhs(records) ==
    {d.path : d \in {e \in RecordsOf(records) : e.lhs = None /\ e.rhs # None}}

MissingFromRhs(records) ==
    {d.path : d \in {e \in RecordsOf(records) : e.lhs # None /\ e.rhs = None}}

\* r is an object holding a subset of l's fields with equal values.
IsSubObject(l, r) ==
    /\ l.k = "Object"
    /\ r.k = "Object"
    /\ DOMAIN r.map \subseteq DOMAIN l.map
    /\ \A f \in DOMAIN r.map : l.map[f] = r.map[f]

(***************************************************************************)
(* C1. Reflexivity under Config::new: for every value v, diff(v, v) is     *)
(* empty in Strict and in Inclusive mode when arrays are compared in order *)
(* and numbers strictly and exactly.                                       *)
(***************************************************************************)
C1_Reflexive ==
    (pc = "done" /\ lhs = rhs /\ IsConfigNew(config)) => acc = <<>>

C1_Witness ==
    /\ pc = "done"
    /\ lhs = rhs
    /\ lhs = Object([f \in {"a", "b"} |->
                        IF f = "a" THEN Array(<<PosInt(1), PosInt(2)>>)
                                   ELSE Object(EmptyMap)])
    /\ config = Config("Strict", "Exact", "Strict", Exact)
    /\ acc = <<>>

(***************************************************************************)
(* C2. Inclusive mode with exact arrays ignores extras on the left: a      *)
(* field added to an object of lhs that the object of rhs at the same      *)
(* place lacks, or an item appended to an array of lhs at an index beyond  *)
(* the array of rhs at the same place, leaves the sequence of record paths *)
(* (so also the emptiness) of the result as it was; and when rhs is an     *)
(* object holding a subset of lhs's fields with equal values the result is *)
(* empty.                                                                  *)
(***************************************************************************)
C2_InclusiveIgnoresExtras ==
    /\ pc = "extended" => PathsOf(acc) = PathsOf(prev)
    /\ (/\ pc = "done"
        /\ config.compare_mode = "Inclusive"
        /\ config.array_sorting_mode = "Exact"
        /\ IsSubObject(lhs, rhs)) => acc = <<>>

C2_Witness ==
    /\ pc = "extended"
    /\ rhs.k = "Object"
    /\ lhs.k = "Object"
    /\ DOMAIN rhs.map = {"a"}
    /\ DOMAIN lhs.map = {"a", "b"}
    /\ lhs.map["a"].k = "Array"
    /\ Len(acc) = 2
    /\ PathsOf(acc) = PathsOf(prev)

(***************************************************************************)
(* C3. The shape of the records: no record has both sides absent; in       *)
(* Inclusive mode every record has its rhs; so Display never reaches one   *)
(* of its unreachable!() arms on a returned record.                        *)
(***************************************************************************)
C3_RecordShape ==
    /\ \A d \in RecordsOf(acc) :
          /\ d.lhs # None \/ d.rhs # None
          /\ config.compare_mode = "Inclusive" => d.rhs # None
    /\ \A i \in 1..Len(out) : out[i].k = "Ok"

C3_Witness ==
    /\ pc = "rendered"
    /\ config.compare_mode = "Inclusive"
    /\ Len(acc) = 2
    /\ acc[1].lhs = None
    /\ acc[2].lhs # None
    /\ \A i \in 1..Len(out) : out[i].k = "Ok"

(***************************************************************************)
(* C4. In Strict mode two runs of diff on the same input return the same   *)
(* records in the same order.                                              *)
(***************************************************************************)
C4_DeterministicOrder ==
    (pc = "again" /\ config.compare_mode = "Strict") => acc = prev

(***************************************************************************)
(* C5. In Strict mode diff(a, b) has a record "missing from lhs" at path P *)
(* exactly when diff(b, a) has a record "missing from rhs" at path P.      *)
(***************************************************************************)
C5_StrictSymmetry ==
    pc = "swapped" => MissingFromLhs(prev) = MissingFromRhs(acc)

C5_Witness ==
    /\ pc = "swapped"
    /\ \E p \in MissingFromLhs(prev) : Len(KeysOf(p)) = 2
    /\ MissingFromRhs(prev) # {}
    /\ MissingFromLhs(prev) = MissingFromRhs(acc)

(***************************************************************************)
(* Counting in arrays                                                      *)
(***************************************************************************)
\* How many items are structurally equal to e.
Occurrences(items, e) ==
    Cardinality({j \in 1..Len(items) : items[j] = e})

\* How many items x count as an appearance of e: diff(x, e) is empty.
Appearances(items, e, cfg) ==
    Cardinality({j \in 1..Len(items) : <<>> \in diff(items[j], e, cfg)})

\* b holds the items of a, each as often as a does, in any order.
IsReordering(a, b) ==
    /\ Len(a) = Len(b)
    /\ \A j \in 1..Len(a) : Occurrences(a, a[j]) = Occurrences(b, a[j])

BothArrays == lhs.k = "Array" /\ rhs.k = "Array"

(***************************************************************************)
(* C6. Multiset containment: with order-ignoring arrays in Inclusive mode, *)
(* diff of two arrays is empty exactly when every item e of rhs, counted   *)
(* with its duplicates in rhs, appears at least that often in lhs. An item *)
(* x is an appearance of e when diff(x, e) is empty, in lhs and in rhs     *)
(* alike: [1,1,2] against [1,2] is empty, [1,2] against [1,1,2] is not.    *)
(***************************************************************************)
C6_MultisetContainment ==
    (/\ pc = "done"
     /\ config.array_sorting_mode = "Ignore"
     /\ config.compare_mode = "Inclusive"
     /\ BothArrays)
    => (acc = <<>>
        <=> \A j \in 1..Len(rhs.items) :
               Appearances(lhs.items, rhs.items[j], config)
                   >= Appearances(rhs.items, rhs.items[j], config))

(***************************************************************************)
(* C7. Array order sensitivity in Strict mode, for a reordering b of a.    *)
(* As stated: diff(a, b) is empty when the order is ignored; it is         *)
(* non-empty under exact order whenever a[i] and b[i] differ structurally  *)
(* at some i; and with the order ignored diff(a, b) is empty only if a and *)
(* b have the same length and the same items with the same multiplicities  *)
(* (an item x being the same as e when diff(x, e) is empty).               *)
(***************************************************************************)
C7_AsStated ==
    (pc = "done" /\ config.compare_mode = "Strict" /\ BothArrays)
    => /\ (config.array_sorting_mode = "Ignore"
           /\ IsReordering(lhs.items, rhs.items)) => acc = <<>>
       /\ (/\ config.array_sorting_mode = "Exact"
           /\ IsReordering(lhs.items, rhs.items)
           /\ \E i \in 1..Len(lhs.items) : lhs.items[i] # rhs.items[i])
          => acc # <<>>
       /\ (config.array_sorting_mode = "Ignore" /\ acc = <<>>)
          => /\ Len(lhs.items) = Len(rhs.items)
             /\ \A j \in 1..Len(rhs.items) :
                   Appearances(lhs.items, rhs.items[j], config)
                       = Appearances(rhs.items, rhs.items[j], config)

\* The state in which the order-ignoring part of C7 fails: a is
\* [[1.0, 1.25], [1.15, 1.25]], b is a itself (the reordering that moves
\* nothing), floats are compared within 0.2, and diff yields one record.
C7_Witness ==
    /\ pc = "done"
    /\ config = Config("Strict", "Ignore", "Strict", Epsilon(20))
    /\ lhs = Array(<<Array(<<Float(100), Float(125)>>),
                     Array(<<Float(115), Float(125)>>)>>)
    /\ rhs = lhs
    /\ IsReordering(lhs.items, rhs.items)
    /\ rhs_item_count(rhs.items, rhs.items[2], config) = 2
    /\ lhs_matching_items_count(lhs.items, rhs.items[2], config) = 1
    /\ acc = <<DifferenceRef(Some(lhs), Some(rhs), Root, config)>>

\* The value of a number on the float grid, in hundredths.
GridValue(v) == IF v.rep = "Float" THEN v.n ELSE 100 * v.n

\* The float rule on two grid values.
FloatRule(cfg, a, b) ==
    \/ a = b
    \/ /\ cfg.float_compare_mode.k = "Epsilon"
       /\ a - b <= cfg.float_compare_mode.epsilon
       /\ b - a <= cfg.float_compare_mode.epsilon

(***************************************************************************)
(* C8. The numeric policy. With numeric_mode = Strict the float rule, and  *)
(* so the margin, applies only to two floats; a pair with an integer in it *)
(* is equal only when representation and value are: diff(1, 1.0),          *)
(* diff(1.0, 1) and, under Epsilon(2.0), diff(2, 1) each yield one record. *)
(* With numeric_mode = AssumeFloat both sides are compared as floats:      *)
(* diff(1, 1.0) and diff(1.0, 1) are empty.                                *)
(***************************************************************************)
C8_NumericPolicy ==
    (pc = "done" /\ lhs.k = "Number" /\ rhs.k = "Number")
    => /\ acc \in {<<>>, <<DifferenceRef(Some(lhs), Some(rhs), Root, config)>>}
       /\ config.numeric_mode = "Strict"
          => (acc = <<>>
              <=> IF lhs.rep = "Float" /\ rhs.rep = "Float"
                  THEN FloatRule(config, lhs.n, rhs.n)
                  ELSE lhs.rep = rhs.rep /\ lhs.n = rhs.n)
       /\ config.numeric_mode = "AssumeFloat"
          => (acc = <<>>
              <=> FloatRule(config, GridValue(lhs), GridValue(rhs)))

C8_Witness ==
    /\ pc = "done"
    /\ lhs = PosInt(2)
    /\ rhs = PosInt(1)
    /\ config = Config("Inclusive", "Exact", "Strict", Epsilon(200))
    /\ Len(acc) = 1

\* The records at the field f or below it.
RecordsUnder(records, f) ==
    {d \in RecordsOf(records) :
        KeysOf(d.path) # <<>> /\ Head(KeysOf(d.path)) = Field(f)}

(***************************************************************************)
(* C9. A type mismatch is ordinary output: when lhs and rhs are of         *)
(* different JSON variants, diff returns exactly one record, at the path   *)
(* of the pair, with both sides present, under every configuration; for a  *)
(* pair one field down in two objects, the only record at or below that    *)
(* field is the one of the pair.                                           *)
(***************************************************************************)
C9_TypeMismatch ==
    pc = "done"
    => /\ lhs.k # rhs.k
          => acc = <<DifferenceRef(Some(lhs), Some(rhs), Root, config)>>
       /\ (lhs.k = "Object" /\ rhs.k = "Object")
          => \A f \in DOMAIN lhs.map \cap DOMAIN rhs.map :
                lhs.map[f].k # rhs.map[f].k
                => /\ RecordsUnder(acc, f)
                        = {DifferenceRef(Some(lhs.map[f]), Some(rhs.map[f]),
                                         Keys(<<Field(f)>>), config)}
                   /\ Cardinality({i \in 1..Len(acc) :
                                      acc[i] \in RecordsUnder(acc, f)}) = 1

C9_Witness ==
    /\ pc = "done"
    /\ lhs.k = "Object"
    /\ rhs.k = "Object"
    /\ "a" \in DOMAIN lhs.map \cap DOMAIN rhs.map
    /\ lhs.map["a"].k = "Array"
    /\ Len(lhs.map["a"].items) = 2
    /\ rhs.map["a"].k = "Object"
    /\ config.compare_mode = "Strict"
    /\ Len(acc) = 2

\* The i-th rhs item is one whose required count lhs does not meet.
CountNotMet(i) ==
    Appearances(lhs.items, rhs.items[i], config)
        < Cardinality({j \in 1..Len(rhs.items) :
                          <<>> \in diff(rhs.items[i], rhs.items[j], config)})

(***************************************************************************)
(* C10. Order-ignoring comparison reports at most once: with               *)
(* array_sorting_mode = Ignore an array of lhs contributes at most one     *)
(* record, at the array's own path (no path ever holds an index), with     *)
(* both sides present and holding the whole two values; the loop stops at  *)
(* the first rhs item whose count is not met; and in Strict mode with      *)
(* arrays of different lengths there is exactly one record and no item is  *)
(* examined.                                                               *)
(***************************************************************************)
C10_ReportsAtMostOnce ==
    (pc = "done" /\ config.array_sorting_mode = "Ignore")
    => /\ \A d \in RecordsOf(acc) :
             \A i \in 1..Len(KeysOf(d.path)) : KeysOf(d.path)[i].k # "Idx"
       /\ lhs.k = "Array"
          => acc \in {<<>>, <<DifferenceRef(Some(lhs), Some(rhs), Root, config)>>}
       /\ (lhs.k = "Object" /\ rhs.k = "Object")
          => \A f \in DOMAIN lhs.map \cap DOMAIN rhs.map :
                lhs.map[f].k = "Array"
                => /\ RecordsUnder(acc, f) \subseteq
                         {DifferenceRef(Some(lhs.map[f]), Some(rhs.map[f]),
                                        Keys(<<Field(f)>>), config)}
                   /\ Cardinality({i \in 1..Len(acc) :
                                      acc[i] \in RecordsUnder(acc, f)}) <= 1
       /\ (BothArrays /\ config.compare_mode = "Strict"
              /\ Len(lhs.items) # Len(rhs.items))
          => Len(acc) = 1 /\ examined = 0
       /\ (BothArrays /\ (config.compare_mode = "Inclusive"
                             \/ Len(lhs.items) = Len(rhs.items)))
          => /\ \A i \in 1..Len(rhs.items) :
                   (CountNotMet(i) /\ \A j \in 1..(i - 1) : ~CountNotMet(j))
                   => examined = i /\ Len(acc) = 1
             /\ (\A i \in 1..Len(rhs.items) : ~CountNotMet(i))
                   => examined = Len(rhs.items) /\ acc = <<>>

C10_Witness ==
    /\ pc = "done"
    /\ config.array_sorting_mode = "Ignore"
    /\ config.compare_mode = "Inclusive"
    /\ BothArrays
    /\ Len(rhs.items) = 3
    /\ CountNotMet(1)
    /\ CountNotMet(2)
    /\ examined = 1
    /\ acc = <<DifferenceRef(Some(lhs), Some(rhs), Root, config)>>

(***************************************************************************)
(* C11. Reflexivity under order-ignoring array comparison: for every value *)
(* v, arrays holding objects or arrays one of which is an inclusive subset *)
(* of another (such as [{"a":1},{}]) included, and for both compare modes, *)
(* diff(v, v, config) with array_sorting_mode = Ignore is empty.           *)
(***************************************************************************)
C11_ReflexiveIgnore ==
    (pc = "done" /\ lhs = rhs /\ config.array_sorting_mode = "Ignore")
    => acc = <<>>

\* p is a proper prefix of q.
IsProperPrefix(p, q) ==
    Len(p) < Len(q) /\ SubSeq(q, 1, Len(p)) = p

RECURSIVE Locates(_, _)
\* The key sequence ks names a location that exists in the value v.
Locates(v, ks) ==
    IF ks = <<>>
    THEN TRUE
    ELSE LET key == Head(ks)
             child == IF key.k = "Idx"
                      THEN IF v.k = "Array" THEN get_idx(v.items, key.i) ELSE None
                      ELSE IF v.k = "Object" THEN get_key(v.map, key.f) ELSE None
         IN  child # None /\ Locates(child[1], Tail(ks))

(***************************************************************************)
(* C12. Path uniqueness in the output: for every lhs, rhs and              *)
(* configuration, no two records of the list diff returns have equal paths *)
(* (as key sequences), no record's path is a proper prefix of another      *)
(* record's path, and every record's path names a location that exists in  *)
(* lhs or in rhs.                                                          *)
(***************************************************************************)
C12_PathUniqueness ==
    pc # "start"
    => /\ \A i, j \in 1..Len(acc) :
             i # j => /\ KeysOf(acc[i].path) # KeysOf(acc[j].path)
                      /\ ~IsProperPrefix(KeysOf(acc[i].path), KeysOf(acc[j].path))
       /\ \A i \in 1..Len(acc) :
             \/ Locates(lhs, KeysOf(acc[i].path))
             \/ Locates(rhs, KeysOf(acc[i].path))

\* Strict, exact order: {"a":[1,2],"b":1} against {"a":[2,1]} gives three
\* records, two of them below the same field and one beside it, present on
\* the left only.
C12_Witness ==
    /\ pc = "done"
    /\ config.compare_mode = "Strict"
    /\ config.array_sorting_mode = "Exact"
    /\ lhs.k = "Object"
    /\ rhs.k = "Object"
    /\ Len(acc) = 3
    /\ {KeysOf(acc[i].path) : i \in 1..3}
          = {<<Field("a"), Idx(0)>>, <<Field("a"), Idx(1)>>, <<Field("b")>>}
    /\ \E i \in 1..3 : acc[i].rhs = None /\ ~Locates(rhs, KeysOf(acc[i].path))

=============================================================================
